---- MODULE Spec2Model ----
(***************************************************************************)
(* A model of the provisioning scripts of the Installer repository:        *)
(*   DOWNLOADER/ComfyUI_WanLightning.py   (script "WanLightning")          *)
(*   DOWNLOADER/Automatic1111_Models.py   (script "A1111Models")           *)
(*   AI APP/Automatic1111_Installer.py    (script "A1111Installer")        *)
(*   AI APP/ComfyUI_Installer.py          (script "ComfyUIInstaller")      *)
(*   AI APP/Automatic1111_Launcher.py     (script "A1111Launcher")         *)
(* One behaviour is one run of one script as an operating-system process.  *)
(* The outcome of every external call (subprocess, HTTP request, file      *)
(* system call) is chosen by the environment when the call is made.        *)
(***************************************************************************)
EXTENDS Integers, Sequences, FiniteSets, TLC

VARIABLES
    script,         \* the script this process runs
    pc,             \* the statement the process is at; "exited" once it ended
    exitStatus,     \* exit status of the process, meaningful when pc = "exited"
    out,            \* the kinds of console message printed so far
    argv,           \* the command line (Automatic1111_Installer)
    key,            \* CIVITAI_API_KEY, read from the environment at import
    requestsOk,     \* whether "import requests" succeeds
    comfyPathOk,    \* whether COMFYUI_PATH exists
    fs,             \* ComfyUI_WanLightning: state of each destination file
    phase,          \* Automatic1111_Models: the download_* function running
    idx,            \* index of the loop of the running function
    xet_available,  \* ComfyUI_WanLightning.main: local xet_available
    downloaded,     \* ComfyUI_WanLightning.main: local downloaded
    success_count,
    xet_success_count,
    manual_success_count,
    attempts,       \* download / clone attempts made for the current item
    processed,      \* items of the lists that the loops have gone through
    item,           \* the item of the running turn of a loop, None outside
    dest_exists,    \* os.path.exists(destination) as the running turn saw it
    steps,          \* installers: the steps run so far, with what they returned
    calls,          \* the external calls made so far, with results
    generated,      \* files the script has written (launch scripts), and
                    \* the .git of the WebUI directory
    platform,       \* sys.platform
    spinners,       \* setup_runpod: the Spinner objects created so far
    cmd,            \* setup_runpod.run_command: the call that is running
    result,         \* setup_runpod.run_command: what subprocess.run gave
    log,            \* setup_runpod: the lines run_command has printed
    run,            \* how many times the script has been started
    skipped,        \* files skipped as already existing in this run
    failed,         \* files reported as "Failed to download" in this run
    prev_failed     \* files whose download failed in the run before

vars == <<script, pc, exitStatus, out, argv, key, requestsOk, comfyPathOk, fs,
          phase, idx, xet_available, downloaded, success_count,
          xet_success_count, manual_success_count, attempts, processed,
          item, dest_exists, steps, calls, generated, platform, spinners,
          cmd, result, log, run, skipped, failed, prev_failed>>

envVars  == <<script, argv, key, requestsOk, comfyPathOk, platform>>
wlVars   == <<fs, xet_available, downloaded, success_count, xet_success_count,
              manual_success_count>>
instVars == <<steps, calls, generated>>
loopVars == <<attempts, processed, item, dest_exists>>
rpVars   == <<spinners, cmd, result, log>>
histVars == <<run, skipped, failed, prev_failed>>

Scripts == {"WanLightning", "A1111Models", "A1111Installer",
            "ComfyUIInstaller", "A1111Launcher", "SetupRunpod"}

(***************************************************************************)
(* Strings are modelled as sequences of tokens, cut so that every          *)
(* substring the code searches for is a run of whole tokens.               *)
(***************************************************************************)
Contains(s, needle) ==
    \E k \in 0..(Len(s) - Len(needle)) :
        SubSeq(s, k + 1, k + Len(needle)) = needle

FirstAt(s, needle) ==
    CHOOSE k \in 0..(Len(s) - Len(needle)) :
        /\ SubSeq(s, k + 1, k + Len(needle)) = needle
        /\ \A j \in 0..(k - 1) : SubSeq(s, j + 1, j + Len(needle)) # needle

\* the text after the first occurrence of needle: url.split(needle)[1] for a
\* url that holds needle once
AfterFirst(s, needle) ==
    SubSeq(s, FirstAt(s, needle) + Len(needle) + 1, Len(s))

MODEL_URLS == <<
    <<"https://huggingface.co/", "bullerwins", "/", "Wan2.2-I2V-A14B-GGUF",
      "/resolve/main/", "wan2.2_i2v", "_high_noise_14B_Q6_K", ".gguf">>,
    <<"https://huggingface.co/", "bullerwins", "/", "Wan2.2-I2V-A14B-GGUF",
      "/resolve/main/", "wan2.2_i2v", "_low_noise_14B_Q6_K", ".gguf">>,
    <<"https://huggingface.co/", "Comfy-Org", "/", "Wan_2.2_ComfyUI_Repackaged",
      "/resolve/main/split_files/", "vae", "/", "wan_2.1_", "vae",
      ".safetensors">>,
    <<"https://huggingface.co/", "Comfy-Org", "/", "Wan_2.2_ComfyUI_Repackaged",
      "/resolve/main/split_files/", "text_encoders", "/",
      "umt5_xxl_fp8_e4m3fn_scaled", ".safetensors">>,
    <<"https://huggingface.co/", "Kijai", "/", "WanVideo_comfy",
      "/resolve/main/", "Lightx2v", "/",
      "lightx2v_I2V_14B_480p_cfg_step_distill_rank64_bf16", ".safetensors">> >>

XET_REPO_MAPPING == <<
    [hf  |-> <<"Comfy-Org", "/", "Wan_2.2_ComfyUI_Repackaged">>,
     xet |-> <<"xet://XetHub/ComfyUI-Models/main/", "Comfy-Org", "/",
               "Wan_2.2_ComfyUI_Repackaged">>],
    [hf  |-> <<"Kijai", "/", "WanVideo_comfy">>,
     xet |-> <<"xet://XetHub/ComfyUI-Models/main/", "Kijai", "/",
               "WanVideo_comfy">>],
    [hf  |-> <<"bullerwins", "/", "Wan2.2-I2V-A14B-GGUF">>,
     xet |-> <<"xet://XetHub/ComfyUI-Models/main/", "bullerwins", "/",
               "Wan2.2-I2V-A14B-GGUF">>] >>

\* Python's None, and the empty string: both are false in a condition
None == <<>>

RECURSIVE XetPathFrom(_, _)
XetPathFrom(url, k) ==
    IF k > Len(XET_REPO_MAPPING) THEN None
    ELSE IF Contains(url, XET_REPO_MAPPING[k].hf)
         THEN XET_REPO_MAPPING[k].xet \o AfterFirst(url, XET_REPO_MAPPING[k].hf)
         ELSE XetPathFrom(url, k + 1)

get_xet_path(url) == XetPathFrom(url, 1)

EndsWith(s, suffix) ==
    /\ Len(s) >= Len(suffix)
    /\ SubSeq(s, Len(s) - Len(suffix) + 1, Len(s)) = suffix

\* the tokens of the URLs that end with "/"
SlashTokens == {"https://huggingface.co/", "/", "/resolve/main/",
                "/resolve/main/split_files/"}

\* os.path.basename(urlparse(url).path): what follows the last "/"
Basename(url) ==
    LET last == CHOOSE k \in 1..Len(url) :
                    /\ url[k] \in SlashTokens
                    /\ \A j \in (k + 1)..Len(url) : url[j] \notin SlashTokens
    IN  SubSeq(url, last + 1, Len(url))

\* create_directories, lines 112-116
directories == {"models/diffusion_models", "models/vae", "models/clip"}

\* every file put straight into models/, the last branch alone
get_destination_path_flat(url) ==
    [dir |-> "models", filename |-> Basename(url)]

\* get_destination_path, lines 125-138: the directory is chosen by what the
\* URL holds, the first test that holds deciding
get_destination_path(url) ==
    [dir |-> IF Contains(url, <<"wan2.2_i2v">>) /\ EndsWith(url, <<".gguf">>)
                THEN "models/diffusion_models"
             ELSE IF Contains(url, <<"diffusion_models">>)
                        \/ Contains(url, <<"Lightx2v">>)
                THEN "models/diffusion_models"
             ELSE IF Contains(url, <<"vae">>) THEN "models/vae"
             ELSE IF Contains(url, <<"text_encoders">>) THEN "models/clip"
             ELSE "models",
     filename |-> Basename(url)]

\* the files of the model are the destinations of the URLs: a destination is
\* named by the place in MODEL_URLS of the first URL that is sent to it
Files == 1..Len(MODEL_URLS)

FileOf(path) ==
    CHOOSE i \in Files :
        /\ get_destination_path(MODEL_URLS[i]) = path
        /\ \A j \in 1..(i - 1) : get_destination_path(MODEL_URLS[j]) # path

\* main, line 190: destination = get_destination_path(url), for each URL
Destinations == [i \in Files |-> FileOf(get_destination_path(MODEL_URLS[i]))]

Destination(i) == Destinations[i]
FileStates == {"absent", "partial", "complete"}


(***************************************************************************)
(* How a process ends.  A script whose main() returns ends with status 0;  *)
(* sys.exit(n) ends it with status n; an exception nobody catches prints a *)
(* traceback and ends it with status 1.                                    *)
(***************************************************************************)
Exit(status, msgs) ==
    /\ pc' = "exited"
    /\ exitStatus' = status
    /\ out' = out \cup msgs

Uncaught == Exit(1, {"traceback"})

(***************************************************************************)
(* DOWNLOADER/ComfyUI_WanLightning.py                                      *)
(***************************************************************************)
XetCheckResults == {"ok", "nonzero", "timeout", "notfound"}

\* check_xet_installed: True only when "xet --version" ran and returned 0
check_xet_installed(r) == r = "ok"

XetResults  == {"ok", "nonzero", "timeout", "error"}
HttpResults == {"ok", "conn_error", "http_error", "open_error", "stream_error"}

\* download_with_xet returns True only when "xet cp" returned 0; a timeout
\* and any other exception are caught and give False
download_with_xet(r) == r = "ok"

\* the destination after download_with_xet: xet cp may leave a part of the
\* file behind when it fails or is killed by the timeout
XetFileAfter(cur, r, left) ==
    CASE r = "ok"                   -> "complete"
      [] r \in {"nonzero", "timeout"} -> left
      [] OTHER                      -> cur

\* download_with_requests returns True when the request, raise_for_status and
\* the whole write loop went through; every exception gives False
download_with_requests(r) == r = "ok"

\* the destination after download_with_requests: open(destination, 'wb')
\* truncates it, and an exception in the loop leaves what was written
HttpFileAfter(cur, r) ==
    CASE r = "ok"           -> "complete"
      [] r = "stream_error" -> "partial"
      [] OTHER              -> cur

\* a test that takes only a whole file for an existing one
ExistsWhenComplete(f) == fs[f] = "complete"

\* os.path.exists(destination)
Exists(f) == fs[f] # "absent"

\* the results of an external call that reach the caller as an exception
Raises(r) == r \notin {"ok", "nonzero"}

\* a narrower handler, "except requests.HTTPError": other exceptions escape
ExceptHttpErrorOnly(r) == r = "http_error"

\* "except subprocess.TimeoutExpired" alone
ExceptTimeoutOnly(r) == r = "timeout"

\* "except Exception": the handler that closes the try block of
\* download_with_xet, download_with_requests, download_file and of the turn
\* of install_extensions takes every exception the call raises
ExceptException(r) == TRUE

\* an exception that no handler takes leaves the function
Propagates(r) == Raises(r) /\ ~ExceptException(r)

\* the lines printed for a copy that did not succeed: "Xet download timed
\* out" by the TimeoutExpired handler of download_with_xet, and in every
\* case main's "Xet download failed, trying manual download"
XetFailureLines(r) ==
    IF r = "timeout" THEN {"xet_timed_out", "xet_failed_trying_manual"}
                     ELSE {"xet_failed_trying_manual"}

\* main, lines 201-203: "if xet_available:" and "if xet_url:"
TryXet(available, xet_url) == available /\ xet_url # None

\* the fallback taken whether or not Xet has downloaded the file
NeedsFallbackAlways(d) == TRUE

\* main, line 214: "if not downloaded:"
NeedsFallback(d) == ~d

\* install_requests_if_needed: "import requests" inside the function; when it
\* fails pip is run and the import tried again
install_requests_if_needed(importable, pipOk) == importable \/ pipOk

\* "import requests" at the top of the module, before main() is called
WL_Import ==
    /\ script = "WanLightning" /\ pc = "start"
    /\ IF requestsOk
          THEN /\ pc' = "wl_check_path"
               /\ UNCHANGED <<exitStatus, out>>
          ELSE Uncaught
    /\ UNCHANGED <<rpVars, histVars, envVars, fs, phase, idx,
                   xet_available, downloaded, success_count,
                   xet_success_count, manual_success_count, loopVars,
                   instVars>>

\* main, lines 162-166: a missing COMFYUI_PATH is reported and main returns
WL_CheckPath ==
    /\ script = "WanLightning" /\ pc = "wl_check_path"
    /\ IF comfyPathOk
          THEN /\ pc' = "wl_requests"
               /\ UNCHANGED <<exitStatus, out>>
          ELSE Exit(0, {"comfyui_path_not_found"})
    /\ UNCHANGED <<rpVars, histVars, envVars, fs, phase, idx,
                   xet_available, downloaded, success_count,
                   xet_success_count, manual_success_count, loopVars,
                   instVars>>

\* main, lines 168-171
WL_InstallRequests ==
    /\ script = "WanLightning" /\ pc = "wl_requests"
    /\ \E pipOk \in BOOLEAN :
          IF install_requests_if_needed(requestsOk, pipOk)
             THEN /\ pc' = "wl_check_xet"
                  /\ UNCHANGED <<exitStatus, out>>
             ELSE Exit(0, {"requests_required"})
    /\ UNCHANGED <<rpVars, histVars, envVars, fs, phase, idx,
                   xet_available, downloaded, success_count,
                   xet_success_count, manual_success_count, loopVars,
                   instVars>>

\* main, lines 173-178
WL_CheckXet ==
    /\ script = "WanLightning" /\ pc = "wl_check_xet"
    /\ \E r \in XetCheckResults :
          /\ xet_available' = check_xet_installed(r)
          /\ out' = out \cup {IF check_xet_installed(r) THEN "xet_available"
                                                       ELSE "xet_not_available"}
    /\ pc' = "wl_mkdirs"
    /\ UNCHANGED <<rpVars, histVars, envVars, exitStatus, fs,
                   phase, idx, downloaded, success_count, xet_success_count,
                   manual_success_count, loopVars, instVars>>

\* main, lines 180-187: create_directories (os.makedirs raises when it
\* cannot create a directory), then the counters are set to 0
WL_CreateDirectories ==
    /\ script = "WanLightning" /\ pc = "wl_mkdirs"
    /\ \E ok \in BOOLEAN :
          IF ok
             THEN /\ pc' = "wl_loop"
                  /\ idx' = 1
                  /\ success_count' = 0
                  /\ xet_success_count' = 0
                  /\ manual_success_count' = 0
                  /\ UNCHANGED <<exitStatus, out>>
             ELSE /\ Uncaught
                  /\ UNCHANGED <<idx, success_count, xet_success_count,
                                 manual_success_count>>
    /\ UNCHANGED <<rpVars, histVars, envVars, fs, phase,
                   xet_available, downloaded, loopVars, instVars>>

\* main, lines 189-200: the head of the loop and the test for an existing file
WL_NextUrl ==
    /\ script = "WanLightning" /\ pc = "wl_loop"
    /\ IF idx > Len(MODEL_URLS)
          THEN /\ pc' = "wl_summary"
               /\ UNCHANGED <<idx, success_count, downloaded, loopVars, out,
                              skipped>>
          ELSE /\ attempts' = <<>>
               /\ processed' = processed \cup {<<"urls", idx>>}
               /\ item' = <<"urls", idx>>
               /\ dest_exists' = Exists(Destination(idx))
               /\ IF Exists(Destination(idx))
                     THEN /\ success_count' = success_count + 1
                          /\ skipped' = skipped \cup {idx}
                          /\ out' = out \cup {"already_exists"}
                          /\ idx' = idx + 1
                          /\ pc' = "wl_loop"
                          /\ UNCHANGED downloaded
                     ELSE /\ downloaded' = FALSE
                          /\ pc' = "wl_xet"
                          /\ UNCHANGED <<success_count, idx, out, skipped>>
    /\ UNCHANGED <<rpVars, run, failed, prev_failed, envVars, exitStatus, fs,
                   phase, xet_available, xet_success_count,
                   manual_success_count, instVars>>

\* main, lines 201-211
WL_TryXet ==
    /\ script = "WanLightning" /\ pc = "wl_xet"
    /\ IF TryXet(xet_available, get_xet_path(MODEL_URLS[idx]))
          THEN \E r \in XetResults, left \in {"absent", "partial"} :
                  /\ attempts' = Append(attempts,
                                   [method |-> "xet", dest |-> Destination(idx),
                                    ok |-> download_with_xet(r)])
                  /\ fs' = [fs EXCEPT ![Destination(idx)] =
                                            XetFileAfter(@, r, left)]
                  /\ IF Propagates(r)
                        THEN /\ Uncaught
                             /\ UNCHANGED <<success_count, xet_success_count,
                                            downloaded>>
                        ELSE /\ pc' = "wl_fallback"
                             /\ UNCHANGED exitStatus
                             /\ IF download_with_xet(r)
                                   THEN /\ success_count' = success_count + 1
                                        /\ xet_success_count' = xet_success_count + 1
                                        /\ downloaded' = TRUE
                                        /\ out' = out \cup {"xet_successful"}
                                   ELSE /\ out' = out \cup XetFailureLines(r)
                                        /\ UNCHANGED <<success_count,
                                                       xet_success_count,
                                                       downloaded>>
          ELSE /\ pc' = "wl_fallback"
               /\ out' = out \cup (IF xet_available THEN {"no_xet_mapping"} ELSE {})
               /\ UNCHANGED <<exitStatus, attempts, fs, success_count,
                              xet_success_count, downloaded>>
    /\ UNCHANGED <<rpVars, histVars, envVars, phase, idx, xet_available, manual_success_count,
                   processed, item, dest_exists, instVars>>

\* main, lines 213-219
WL_Fallback ==
    /\ script = "WanLightning" /\ pc = "wl_fallback"
    /\ IF NeedsFallback(downloaded)
          THEN \E r \in HttpResults :
                  /\ attempts' = Append(attempts,
                                   [method |-> "http",
                                    dest |-> Destination(idx),
                                    ok |-> download_with_requests(r)])
                  /\ fs' = [fs EXCEPT ![Destination(idx)] = HttpFileAfter(@, r)]
                  /\ IF Propagates(r)
                        THEN /\ Uncaught
                             /\ UNCHANGED <<idx, success_count,
                                            manual_success_count, failed>>
                        ELSE /\ idx' = idx + 1
                             /\ pc' = "wl_loop"
                             /\ UNCHANGED exitStatus
                             /\ IF download_with_requests(r)
                                   THEN /\ success_count' = success_count + 1
                                        /\ manual_success_count' =
                                               manual_success_count + 1
                                        /\ out' = out \cup {"manual_successful"}
                                        /\ UNCHANGED failed
                                   ELSE /\ out' = out \cup {"failed_to_download"}
                                        /\ failed' = failed \cup {idx}
                                        /\ UNCHANGED <<success_count,
                                                       manual_success_count>>
          ELSE /\ idx' = idx + 1
               /\ pc' = "wl_loop"
               /\ UNCHANGED <<exitStatus, attempts, fs, success_count,
                              manual_success_count, out, failed>>
    /\ UNCHANGED <<rpVars, run, skipped, prev_failed, envVars, phase,
                   xet_available, downloaded,
                   xet_success_count, processed, item, dest_exists, instVars>>

\* the success message printed as soon as one file was counted
AllDownloadedIfAny(count) == count > 0

\* main, line 231: "if success_count == len(MODEL_URLS):"
AllDownloaded(count) == count = Len(MODEL_URLS)

\* main, lines 221-238: the summary; main returns
WL_Summary ==
    /\ script = "WanLightning" /\ pc = "wl_summary"
    /\ Exit(0, {"summary",
                IF AllDownloaded(success_count) THEN "all_downloaded"
                                                ELSE "some_failed"})
    /\ UNCHANGED <<rpVars, histVars, envVars, fs, phase, idx,
                   xet_available, downloaded, success_count,
                   xet_success_count, manual_success_count, loopVars,
                   instVars>>

\* how many times the model starts the script on the same file system
MaxRuns == 2

\* the script started again by the user, as the closing warning of lines
\* 237-238 suggests ("You may need to run the script again"): a new process
\* on the file system the run before has left.  The runs followed are those
\* after a first run that found none of the files.
WL_RunAgain ==
    /\ script = "WanLightning" /\ pc = "exited"
    /\ "some_failed" \in out
    /\ skipped = {}
    /\ run < MaxRuns
    /\ run' = run + 1
    /\ prev_failed' = failed
    /\ failed' = {}
    /\ skipped' = {}
    /\ pc' = "start"
    /\ exitStatus' = 0
    /\ out' = {}
    /\ idx' = 0
    /\ xet_available' = FALSE
    /\ downloaded' = FALSE
    /\ success_count' = 0
    /\ xet_success_count' = 0
    /\ manual_success_count' = 0
    /\ attempts' = <<>>
    /\ processed' = {}
    /\ item' = None
    /\ dest_exists' = FALSE
    /\ UNCHANGED <<envVars, fs, phase, instVars, rpVars>>

(***************************************************************************)
(* DOWNLOADER/Automatic1111_Models.py                                      *)
(* main calls nine functions in a fixed order; each goes through its own   *)
(* table of URLs.  phase is the place of the running function in Phases.   *)
(***************************************************************************)
Phases == <<
    [name |-> "models",     n |-> 8, host |-> "civitai.com"],
    [name |-> "codeformer", n |-> 1, host |-> "huggingface.co"],
    [name |-> "controlnet", n |-> 4, host |-> "huggingface.co"],
    [name |-> "esrgan",     n |-> 3, host |-> "huggingface.co"],
    [name |-> "remacri",    n |-> 1, host |-> "huggingface.co"],
    [name |-> "dfpgan",     n |-> 4, host |-> "huggingface.co"],
    [name |-> "realesrgan", n |-> 2, host |-> "huggingface.co"],
    [name |-> "loras",      n |-> 2, host |-> "civitai.com"],
    [name |-> "extensions", n |-> 5, host |-> "github.com"] >>

PhaseOf(name) == CHOOSE p \in 1..Len(Phases) : Phases[p].name = name

DownloadResults == {"ok", "conn_error", "http_error", "open_error",
                    "stream_error"}
CloneResults == {"ok", "nonzero", "error"}

\* True as soon as the server has answered, whatever the status and the write
download_file_unchecked(r) == r # "conn_error"

\* download_file returns True when the request, raise_for_status and the whole
\* write loop went through; every exception gives False
download_file(r) == r = "ok"

\* the lines download_file prints, lines 13, 33 and 37, and what each puts
\* into its text: the url, the destination, the text of the exception
DownloadLines(r) ==
    {"downloading_url"} \cup (IF download_file(r) THEN {"download_completed"}
                                                  ELSE {"error_downloading"})

\* the request download_file(url, destination, headers) sends
Request(headers, r) ==
    [method |-> IF "Authorization" \in headers THEN "auth_get"
                                                ELSE "unauth_get",
     result |-> r,
     ok |-> download_file(r)]

\* headers of download_models / download_loras, lines 79-81 and 188-190
CivitaiHeaders(k) == IF k # "" THEN {"Authorization"} ELSE {}

\* the second call made with the headers of the first
SameHeadersAgain == {"Authorization"}

\* headers=None becomes {} in download_file, lines 15-16
NoHeaders == {}

\* a second call after every failure, key or no key
RetryOnAnyFailure(success, k) == ~success

\* "if not success and CIVITAI_API_KEY", lines 88 and 196
RetryWithoutKey(success, k) == ~success /\ k # ""

\* "import os, requests, ..." and the read of CIVITAI_API_KEY, lines 1-8
AM_Import ==
    /\ script = "A1111Models" /\ pc = "start"
    /\ IF requestsOk
          THEN /\ pc' = "am_setup"
               /\ UNCHANGED <<exitStatus, out>>
          ELSE Uncaught
    /\ UNCHANGED <<rpVars, histVars, envVars, wlVars, instVars, phase, idx, loopVars>>

\* main, lines 238-249: the banner, setup_directories (os.makedirs raises when
\* it cannot create a directory) and the entry into download_models
AM_Setup ==
    /\ script = "A1111Models" /\ pc = "am_setup"
    /\ \E ok \in BOOLEAN :
          IF ok
             THEN /\ pc' = "am_item"
                  /\ phase' = 1
                  /\ idx' = 1
                  /\ out' = out \cup (IF key # ""
                                         THEN {"api_key_detected", "using_api_key"}
                                         ELSE {"no_api_key"})
                  /\ UNCHANGED exitStatus
             ELSE /\ Uncaught
                  /\ UNCHANGED <<phase, idx>>
    /\ UNCHANGED <<rpVars, histVars, envVars, wlVars, instVars, loopVars>>

\* one turn of the loop of download_models / download_loras up to and
\* including the first download_file call
CivitaiItem(p) ==
    /\ script = "A1111Models" /\ pc = "am_item" /\ phase = p
    /\ idx <= Phases[p].n
    /\ processed' = processed \cup {<<Phases[p].name, idx>>}
    /\ item' = <<Phases[p].name, idx>>
    /\ \E exists \in BOOLEAN :
          /\ dest_exists' = exists
          /\ IF exists
                THEN /\ attempts' = <<>>
                     /\ out' = out \cup {"file_exists"}
                     /\ idx' = idx + 1
                     /\ UNCHANGED <<pc, exitStatus>>
                ELSE \E r \in DownloadResults :
                        /\ attempts' = <<Request(CivitaiHeaders(key), r)>>
                        /\ IF Propagates(r)
                              THEN Uncaught /\ UNCHANGED idx
                              ELSE IF RetryWithoutKey(download_file(r), key)
                                      THEN /\ pc' = "am_retry"
                                           /\ out' = out \cup DownloadLines(r)
                                                       \cup {"trying_without_key"}
                                           /\ UNCHANGED <<idx, exitStatus>>
                                      ELSE /\ idx' = idx + 1
                                           /\ out' = out \cup DownloadLines(r)
                                           /\ UNCHANGED <<pc, exitStatus>>
    /\ UNCHANGED <<rpVars, histVars, envVars, wlVars, instVars, phase>>

\* the second download_file call of the turn, lines 90 and 198
CivitaiRetry(p) ==
    /\ script = "A1111Models" /\ pc = "am_retry" /\ phase = p
    /\ \E r \in DownloadResults :
          /\ attempts' = Append(attempts, Request(NoHeaders, r))
          /\ IF Propagates(r)
                THEN Uncaught /\ UNCHANGED idx
                ELSE /\ idx' = idx + 1
                     /\ pc' = "am_item"
                     /\ out' = out \cup DownloadLines(r)
                     /\ UNCHANGED exitStatus
    /\ UNCHANGED <<rpVars, histVars, envVars, wlVars, instVars, phase, processed, item,
                   dest_exists>>

\* one turn of the loop of download_codeformer, download_controlnet,
\* download_esrgan, download_remacri, download_dfpgan, download_realesrgan
PlainItem(p) ==
    /\ script = "A1111Models" /\ pc = "am_item" /\ phase = p
    /\ idx <= Phases[p].n
    /\ processed' = processed \cup {<<Phases[p].name, idx>>}
    /\ item' = <<Phases[p].name, idx>>
    /\ \E exists \in BOOLEAN :
          /\ dest_exists' = exists
          /\ IF exists
                THEN /\ attempts' = <<>>
                     /\ out' = out \cup {"file_exists"}
                     /\ idx' = idx + 1
                     /\ UNCHANGED <<pc, exitStatus>>
                ELSE \E r \in DownloadResults :
                        /\ attempts' = <<Request(NoHeaders, r)>>
                        /\ IF Propagates(r)
                              THEN Uncaught /\ UNCHANGED idx
                              ELSE /\ idx' = idx + 1
                                   /\ out' = out \cup DownloadLines(r)
                                   /\ UNCHANGED <<pc, exitStatus>>
    /\ UNCHANGED <<rpVars, histVars, envVars, wlVars, instVars, phase>>

download_models     == CivitaiItem(PhaseOf("models")) \/ CivitaiRetry(PhaseOf("models"))
download_codeformer == PlainItem(PhaseOf("codeformer"))
download_controlnet == PlainItem(PhaseOf("controlnet"))
download_esrgan     == PlainItem(PhaseOf("esrgan"))
download_remacri    == PlainItem(PhaseOf("remacri"))
download_dfpgan     == PlainItem(PhaseOf("dfpgan"))
download_realesrgan == PlainItem(PhaseOf("realesrgan"))
download_loras      == CivitaiItem(PhaseOf("loras")) \/ CivitaiRetry(PhaseOf("loras"))

\* one turn of the loop of install_extensions: an existing directory is
\* skipped; a clone that returns non-zero or raises is reported
install_extensions ==
    /\ script = "A1111Models" /\ pc = "am_item" /\ phase = PhaseOf("extensions")
    /\ idx <= Phases[phase].n
    /\ processed' = processed \cup {<<"extensions", idx>>}
    /\ item' = <<"extensions", idx>>
    /\ \E exists \in BOOLEAN :
          /\ dest_exists' = exists
          /\ IF exists
                THEN /\ attempts' = <<>>
                     /\ out' = out \cup {"extension_exists"}
                     /\ idx' = idx + 1
                     /\ UNCHANGED <<pc, exitStatus>>
                ELSE \E r \in CloneResults :
                        /\ attempts' = <<[method |-> "git_clone", ok |-> r = "ok"]>>
                        /\ IF Propagates(r)
                              THEN Uncaught /\ UNCHANGED idx
                              ELSE /\ out' = out \cup
                                        {CASE r = "ok"      -> "extension_installed"
                                           [] r = "nonzero" -> "extension_failed"
                                           [] OTHER         -> "extension_error"}
                                   /\ idx' = idx + 1
                                   /\ UNCHANGED <<pc, exitStatus>>
    /\ UNCHANGED <<rpVars, histVars, envVars, wlVars, instVars, phase>>

\* main, lines 249-273: a function returns at the end of its table and main
\* calls the next one
AM_NextFunction ==
    /\ script = "A1111Models" /\ pc = "am_item"
    /\ idx > Phases[phase].n /\ phase < Len(Phases)
    /\ phase' = phase + 1
    /\ idx' = 1
    /\ item' = None
    /\ attempts' = <<>>
    /\ dest_exists' = FALSE
    /\ UNCHANGED <<rpVars, histVars, envVars, wlVars, instVars, exitStatus, pc, out, processed>>

\* main, lines 275-282: the closing messages; main returns
AM_Summary ==
    /\ script = "A1111Models" /\ pc = "am_item"
    /\ idx > Phases[phase].n /\ phase = Len(Phases)
    /\ Exit(0, {"completed"})
    /\ UNCHANGED <<rpVars, histVars, envVars, wlVars, instVars, phase, idx, loopVars>>


(***************************************************************************)
(* AI APP/Automatic1111_Installer.py                                       *)
(***************************************************************************)
ArgvChoices == {<<>>, <<"--skip-deps">>, <<"--help">>, <<"--bogus">>}

\* argparse: "-h/--help" prints the usage and exits with 0, an option the
\* parser does not know exits with 2, otherwise parse_args returns
parse_args(av) ==
    IF \E k \in 1..Len(av) : av[k] = "--help" THEN "help"
    ELSE IF \E k \in 1..Len(av) : av[k] # "--skip-deps" THEN "usage_error"
    ELSE "parsed"

\* args.skip_deps of the parsed command line
skip_deps(av) == \E k \in 1..Len(av) : av[k] = "--skip-deps"

CommandResults == {"ok", "nonzero", "error"}

\* a step of WebUIInstaller that runs one command: True only for return code 0;
\* a non-zero return code and an exception both give False
StepResult(r) == r = "ok"

\* check_dependencies: conda is looked for first, git only when conda is there
check_dependencies(condaOk, gitOk) == condaOk /\ gitOk

\* the record of an external call (a command, a file-system operation) and of
\* how it ended
Call(name, r) == [call |-> name, result |-> r]

\* the record of a step of install() and of what it returned
Step(name, ret) == [name |-> name, ret |-> ret]

Ret(b) == IF b THEN "True" ELSE "False"

\* a status that does not depend on what install returned
ExitCodeAlwaysZero(success) == 0

\* main, line 318: sys.exit(0 if success else 1)
ExitCode(success) == IF success THEN 0 ELSE 1

\* install() going on to the next step whatever the step returned
Unchecked(ret, next, msg) ==
    /\ pc' = next
    /\ UNCHANGED <<rpVars, histVars, exitStatus, out>>

\* install(): "if not self.step(): print(...); return False", and main's
\* sys.exit once install has returned False
Checked(ret, next, msg) ==
    IF ret THEN /\ pc' = next
                /\ UNCHANGED <<exitStatus, out>>
           ELSE Exit(ExitCode(FALSE), {msg})

\* main, lines 306-315
AI_ParseArgs ==
    /\ script = "A1111Installer" /\ pc = "start"
    /\ CASE parse_args(argv) = "help"        -> Exit(0, {"usage"})
         [] parse_args(argv) = "usage_error" -> Exit(2, {"usage_error"})
         [] OTHER -> /\ pc' = "ai_check_dependencies"
                     /\ UNCHANGED <<exitStatus, out>>
    /\ UNCHANGED <<rpVars, histVars, envVars, wlVars, instVars, phase, idx, loopVars>>

\* install, lines 258-261, with check_dependencies
AI_CheckDependencies ==
    /\ script = "A1111Installer" /\ pc = "ai_check_dependencies"
    /\ \E condaOk \in BOOLEAN, gitOk \in BOOLEAN :
          /\ steps' = Append(steps, Step("check_dependencies",
                                         Ret(check_dependencies(condaOk, gitOk))))
          /\ calls' = calls \o
                (IF condaOk
                    THEN <<Call("conda --version", "ok"),
                           Call("git --version", IF gitOk THEN "ok" ELSE "nonzero")>>
                    ELSE <<Call("conda --version", "nonzero")>>)
          /\ Checked(check_dependencies(condaOk, gitOk),
                     "ai_create_directory_structure", "missing_dependencies")
    /\ UNCHANGED <<rpVars, histVars, envVars, wlVars, generated, phase, idx, loopVars>>

\* install, line 264, with create_directory_structure: its result is not
\* looked at; a mkdir that raises ends the process with a traceback
AI_CreateDirectoryStructure ==
    /\ script = "A1111Installer" /\ pc = "ai_create_directory_structure"
    /\ \E ok \in BOOLEAN :
          /\ steps' = Append(steps, Step("create_directory_structure",
                                         IF ok THEN "None" ELSE "raised"))
          /\ calls' = Append(calls, Call("mkdir workspace directories",
                                          IF ok THEN "ok" ELSE "error"))
          /\ IF ok THEN /\ pc' = "ai_setup_conda_environment"
                        /\ UNCHANGED <<exitStatus, out>>
                   ELSE Uncaught
    /\ UNCHANGED <<rpVars, histVars, envVars, wlVars, generated, phase, idx, loopVars>>

\* install, lines 267-269, with setup_conda_environment
AI_SetupCondaEnvironment ==
    /\ script = "A1111Installer" /\ pc = "ai_setup_conda_environment"
    /\ \E r \in CommandResults :
          /\ steps' = Append(steps, Step("setup_conda_environment",
                                         Ret(StepResult(r))))
          /\ calls' = Append(calls, Call("conda create", r))
          /\ Checked(StepResult(r), "ai_clone_webui_repository",
                     "failed_conda_environment")
    /\ UNCHANGED <<rpVars, histVars, envVars, wlVars, generated, phase, idx, loopVars>>

\* a clone that is run whatever the WebUI directory holds
NeverSkipsClone(files) == FALSE

\* clone_webui_repository, line 93: if (self.webui_dir / ".git").exists()
SkipsClone(files) == ".git" \in files

\* install, lines 272-274, with clone_webui_repository: no git command when
\* the WebUI directory already holds .git; a clone that exits 0 leaves .git
\* in the WebUI directory
AI_CloneWebuiRepository ==
    /\ script = "A1111Installer" /\ pc = "ai_clone_webui_repository"
    /\ IF SkipsClone(generated)
          THEN /\ steps' = Append(steps, Step("clone_webui_repository",
                                              Ret(TRUE)))
               /\ UNCHANGED <<calls, generated>>
               /\ Checked(TRUE, "ai_install_webui_dependencies",
                          "failed_clone")
          ELSE \E r \in CommandResults :
                  /\ steps' = Append(steps, Step("clone_webui_repository",
                                                 Ret(StepResult(r))))
                  /\ calls' = Append(calls, Call("git clone", r))
                  /\ generated' = IF StepResult(r)
                                     THEN generated \cup {".git"}
                                     ELSE generated
                  /\ Checked(StepResult(r), "ai_install_webui_dependencies",
                             "failed_clone")
    /\ UNCHANGED <<rpVars, histVars, envVars, wlVars, phase, idx, loopVars>>

\* install_webui_dependencies: PyTorch first; then requirements.txt when the
\* file is there, the list of essential packages when it is not
\* the result of the second pip install alone, whatever PyTorch's was
install_webui_dependencies_second_only(torch, second) == StepResult(second)

install_webui_dependencies(torch, second) == StepResult(torch) /\ StepResult(second)

\* install, lines 277-279, with install_webui_dependencies
AI_InstallWebuiDependencies ==
    /\ script = "A1111Installer" /\ pc = "ai_install_webui_dependencies"
    /\ \E torch \in CommandResults, second \in CommandResults,
          requirements \in BOOLEAN :
          /\ steps' = Append(steps, Step("install_webui_dependencies",
                          Ret(install_webui_dependencies(torch, second))))
          /\ calls' = calls \o <<Call("pip install torch", torch)>> \o
                (IF ~StepResult(torch) THEN <<>>
                 ELSE IF requirements
                         THEN <<Call("pip install -r requirements.txt", second)>>
                         ELSE <<Call("pip install essential packages", second)>>)
          /\ Checked(install_webui_dependencies(torch, second),
                     "ai_create_launch_script", "failed_dependencies")
    /\ UNCHANGED <<rpVars, histVars, envVars, wlVars, generated, phase, idx, loopVars>>

\* install, lines 282-284, with create_launch_script
AI_CreateLaunchScript ==
    /\ script = "A1111Installer" /\ pc = "ai_create_launch_script"
    /\ \E ok \in BOOLEAN :
          /\ steps' = Append(steps, Step("create_launch_script", Ret(ok)))
          /\ calls' = Append(calls, Call("write launch_webui.sh",
                                          IF ok THEN "ok" ELSE "error"))
          /\ generated' = IF ok THEN generated \cup {"launch_webui.sh"}
                                ELSE generated
          /\ Checked(ok, "ai_create_conda_activation_script",
                     "failed_launch_script")
    /\ UNCHANGED <<rpVars, histVars, envVars, wlVars, phase, idx, loopVars>>

\* install, lines 287-289, with create_conda_activation_script
AI_CreateCondaActivationScript ==
    /\ script = "A1111Installer" /\ pc = "ai_create_conda_activation_script"
    /\ \E ok \in BOOLEAN :
          /\ steps' = Append(steps, Step("create_conda_activation_script", Ret(ok)))
          /\ calls' = Append(calls, Call("write activate_env.sh",
                                          IF ok THEN "ok" ELSE "error"))
          /\ generated' = IF ok THEN generated \cup {"activate_env.sh"}
                                ELSE generated
          /\ Checked(ok, "ai_completed", "failed_activation_script")
    /\ UNCHANGED <<rpVars, histVars, envVars, wlVars, phase, idx, loopVars>>

\* install, lines 291-303, and main, line 318: the banner, return True,
\* sys.exit(0)
AI_Completed ==
    /\ script = "A1111Installer" /\ pc = "ai_completed"
    /\ Exit(ExitCode(TRUE), {"installation_completed"})
    /\ UNCHANGED <<rpVars, histVars, envVars, wlVars, instVars, phase, idx, loopVars>>


(***************************************************************************)
(* AI APP/ComfyUI_Installer.py                                             *)
(***************************************************************************)
RunResults == {"ok", "nonzero", "raise"}

\* run_command without check=True: a failing command is not noticed
run_command_unchecked(r) == TRUE

\* run_command: True when the shell command returned 0, False on
\* CalledProcessError; any other exception (a cwd that does not exist) is
\* not caught
run_command(r) == r = "ok"

\* "if not run_command(cmd, ...): sys.exit(1)" at pc = at
CI_Command(at, name, next) ==
    /\ script = "ComfyUIInstaller" /\ pc = at
    /\ \E r \in RunResults :
          /\ steps' = Append(steps, Step(name, IF r = "raise" THEN "raised"
                                               ELSE Ret(run_command(r))))
          /\ calls' = Append(calls, Call(name, r))
          /\ IF r = "raise" THEN Uncaught
             ELSE IF run_command(r)
                     THEN /\ pc' = next
                          /\ UNCHANGED <<exitStatus, out>>
                     ELSE Exit(1, {"command_error"})
    /\ UNCHANGED <<rpVars, histVars, envVars, wlVars, generated, phase, idx, loopVars>>

\* "try: os.makedirs(path, exist_ok=True) except Exception: sys.exit(1)"
CI_MakeDirs(at, name, next) ==
    /\ script = "ComfyUIInstaller" /\ pc = at
    /\ \E ok \in BOOLEAN :
          /\ steps' = Append(steps, Step(name, Ret(ok)))
          /\ calls' = Append(calls, Call(name, IF ok THEN "ok" ELSE "error"))
          /\ IF ok THEN /\ pc' = next
                        /\ UNCHANGED <<exitStatus, out>>
                   ELSE Exit(1, {"directory_error"})
    /\ UNCHANGED <<rpVars, histVars, envVars, wlVars, generated, phase, idx, loopVars>>

\* main, lines 38-41
CI_CondaCreate == CI_Command("start", "conda create", "ci_envs_dir")

\* main, lines 43-50
CI_MakeEnvsDir == CI_MakeDirs("ci_envs_dir", "makedirs ENVS", "ci_clone")

\* main, lines 52-55
CI_CloneComfyUI == CI_Command("ci_clone", "git clone ComfyUI", "ci_torch")

\* main, lines 57-63
CI_InstallTorch == CI_Command("ci_torch", "pip install torch", "ci_requirements")

\* main, lines 65-71
CI_InstallRequirements ==
    CI_Command("ci_requirements", "pip install -r requirements.txt",
               "ci_custom_nodes")

\* main, lines 73-80
CI_MakeCustomNodesDir ==
    CI_MakeDirs("ci_custom_nodes", "makedirs custom_nodes", "ci_clone_manager")

\* main, lines 82-85
CI_CloneManager ==
    CI_Command("ci_clone_manager", "git clone ComfyUI-Manager", "ci_completed")

\* main, lines 87-94: the closing banner; main returns.  No file is written:
\* the script ends without creating run_comfyui.sh or comfyui_launcher.py
CI_Completed ==
    /\ script = "ComfyUIInstaller" /\ pc = "ci_completed"
    /\ Exit(0, {"installation_completed"})
    /\ UNCHANGED <<rpVars, histVars, envVars, wlVars, instVars, phase, idx, loopVars>>

(***************************************************************************)
(* AI APP/Automatic1111_Launcher.py                                        *)
(***************************************************************************)
\* main, lines 49-58: makedirs, write and chmod of start_automatic1111.sh;
\* an exception goes to the handler of lines 117-124 and main returns
AL_WriteStartScript ==
    /\ script = "A1111Launcher" /\ pc = "start"
    /\ \E ok \in BOOLEAN :
          /\ calls' = Append(calls, Call("write start_automatic1111.sh",
                                          IF ok THEN "ok" ELSE "error"))
          /\ IF ok
                THEN /\ generated' = generated \cup {"start_automatic1111.sh"}
                     /\ out' = out \cup {"created_script"}
                     /\ pc' = "al_launcher"
                     /\ UNCHANGED exitStatus
                ELSE /\ Exit(0, {"error_creating_script", "manual_commands"})
                     /\ UNCHANGED generated
    /\ UNCHANGED <<rpVars, histVars, envVars, wlVars, steps, phase, idx, loopVars>>

\* main, lines 98-115: write and chmod of launch_automatic1111.py, the closing
\* messages; main returns.  An exception goes to the same handler
AL_WriteLauncher ==
    /\ script = "A1111Launcher" /\ pc = "al_launcher"
    /\ \E ok \in BOOLEAN :
          /\ calls' = Append(calls, Call("write launch_automatic1111.py",
                                          IF ok THEN "ok" ELSE "error"))
          /\ IF ok
                THEN /\ generated' = generated \cup {"launch_automatic1111.py"}
                     /\ Exit(0, {"created_launcher"})
                ELSE /\ Exit(0, {"error_creating_script", "manual_commands"})
                     /\ UNCHANGED generated
    /\ UNCHANGED <<rpVars, histVars, envVars, wlVars, steps, phase, idx, loopVars>>

(***************************************************************************)
(* SYSTEM/setup_runpod.py                                                  *)
(* main calls five functions in a fixed order; each is a list of           *)
(* statements, most of them a call of run_command.  run_command runs the   *)
(* command inside "with Spinner(...)": the spinner's thread animates the   *)
(* terminal while the main thread waits in subprocess.run.                 *)
(***************************************************************************)
\* install_miniconda, lines 122-129
default_channels ==
    <<"https://repo.anaconda.com/pkgs/main", "https://repo.anaconda.com/pkgs/r",
      "defaults", "nvidia", "pytorch", "conda-forge">>

\* a statement of a setup function: a run_command call (kind "run") or
\* another call that touches the system
Statement(fn, kind, c, arg, check) ==
    [fn |-> fn, kind |-> kind, cmd |-> c, arg |-> arg, check |-> check]

\* the acceptance run with check left at its default, True
TosStatementChecked(channel_url) ==
    Statement("accept_conda_tos", "run", "conda tos accept", channel_url, TRUE)

\* accept_conda_tos(channel_url), lines 86-90: run_command with check=False
TosStatement(channel_url) ==
    Statement("accept_conda_tos", "run", "conda tos accept", channel_url, FALSE)

\* the statements main goes through, in the order of the calls of lines
\* 207-219 and, inside each function, of its lines
SetupSteps ==
    <<Statement("install_git", "run", "apt-get update", "", TRUE),
      Statement("install_git", "run", "apt-get install -y git", "", TRUE),
      Statement("install_essential_tools", "run", "apt-get install -y tools",
                "", TRUE),
      Statement("install_miniconda", "urlretrieve", "download miniconda.sh",
                "", FALSE),
      Statement("install_miniconda", "run", "bash miniconda.sh", "", TRUE),
      Statement("install_miniconda", "run", "conda init bash", "", TRUE),
      Statement("install_miniconda", "run", "eval conda shell.bash hook",
                "", TRUE)>>
    \o [k \in 1..Len(default_channels) |-> TosStatement(default_channels[k])]
    \o
    <<Statement("install_miniconda", "run", "conda update", "", TRUE),
      Statement("install_miniconda", "remove", "remove miniconda.sh", "", FALSE),
      Statement("setup_environment", "write", "append /root/.bashrc", "", FALSE),
      Statement("setup_environment", "run", "eval conda shell.bash hook",
                "", TRUE),
      Statement("test_conda_initialization", "run", "conda create test_env",
                "", FALSE),
      Statement("test_conda_initialization", "run", "conda env remove test_env",
                "", TRUE)>>

\* the record of an external call of setup_runpod and of how it ended
RpCall(st, r) == [call |-> st.cmd, arg |-> st.arg, result |-> r]

\* Spinner.__init__ followed by __enter__: the thread is started and is at the
\* test of its while loop
Spinner == [stop_running |-> FALSE, thread |-> "test", i |-> 0]

\* a spinner thread that has been started and has not left spin()
Alive(sp) == sp.thread \in {"test", "write", "sleep"}

\* subprocess.run(cmd, shell=True, check=check, ...): a CompletedProcess,
\* CalledProcessError for a non-zero code when check is True, OSError when
\* the shell cannot be started
subprocess_run(r, check) ==
    CASE r = "ok"      -> [kind |-> "CompletedProcess", returncode |-> 0]
      [] r = "nonzero" -> [kind |-> IF check THEN "CalledProcessError"
                                             ELSE "CompletedProcess",
                           returncode |-> 1]
      [] OTHER         -> [kind |-> "OSError", returncode |-> 1]

\* a handler that hands the error back whatever check is
ReturnsErrorAlways(check) == TRUE

\* run_command, lines 66-67: "if not check: return e"
ReturnsError(check) == ~check

\* an __exit__ that returns True, so that "with" drops the exception
SuppressesAnyException(kind) == TRUE

\* Spinner.__exit__ returns None: the exception raised inside "with" goes on
SuppressesException(kind) == FALSE

\* a join that does not wait for the thread
JoinWithoutWaiting(t) == TRUE

\* thread.join() returns once the thread has left spin()
Joined(t) == t = "finished"

\* main, lines 193-204: the banner, check_disk_space and the platform test
\* a main that goes on whatever the platform is
AnyPlatform(p) == TRUE

\* main, line 202: sys.platform.startswith('linux')
IsLinux(p) == p = "linux"

\* main, lines 193-204: the banner, check_disk_space (shutil.disk_usage reads
\* and may raise), then the test of the platform
RP_Main ==
    /\ script = "SetupRunpod" /\ pc = "start"
    /\ \E disk \in {"ok", "raise"} :
          IF disk = "raise"
             THEN /\ Uncaught
                  /\ UNCHANGED idx
          ELSE IF IsLinux(platform)
             THEN /\ pc' = "rp_step"
                  /\ idx' = 1
                  /\ UNCHANGED <<exitStatus, out>>
             ELSE /\ Exit(1, {"linux_only"})
                  /\ UNCHANGED idx
    /\ UNCHANGED <<envVars, wlVars, instVars, phase, loopVars, rpVars,
                   histVars>>

\* the first statement of a function is the call of the function;
\* accept_conda_tos is called once for each channel, and the statements of
\* install_miniconda after the loop are no new call of install_miniconda
EntersFunction(k) ==
    \/ SetupSteps[k].fn = "accept_conda_tos"
    \/ \A j \in 1..(k - 1) : SetupSteps[j].fn # SetupSteps[k].fn

\* the next statement of function fn: a run_command call is entered, another
\* call is made and raises when it fails
RP_Statement(fn) ==
    /\ script = "SetupRunpod" /\ pc = "rp_step"
    /\ idx <= Len(SetupSteps) /\ SetupSteps[idx].fn = fn
    /\ steps' = IF EntersFunction(idx) THEN Append(steps, Step(fn, "called"))
                                       ELSE steps
    /\ IF SetupSteps[idx].kind = "run"
          THEN /\ cmd' = SetupSteps[idx]
               /\ pc' = "rc_enter"
               /\ UNCHANGED <<idx, calls, exitStatus, out>>
          ELSE \E ok \in BOOLEAN :
                  /\ calls' = Append(calls, RpCall(SetupSteps[idx],
                                             IF ok THEN "ok" ELSE "raise"))
                  /\ UNCHANGED cmd
                  /\ IF ok THEN /\ idx' = idx + 1
                                /\ UNCHANGED <<pc, exitStatus, out>>
                           ELSE Uncaught /\ UNCHANGED idx
    /\ UNCHANGED <<envVars, wlVars, generated, phase, loopVars, spinners,
                   result, log, histVars>>

\* run_command, lines 48-52: the description is printed, the Spinner is made
\* and __enter__ starts its thread
RC_Enter ==
    /\ script = "SetupRunpod" /\ pc = "rc_enter"
    /\ log' = Append(log, [line |-> "start", cmd |-> cmd.cmd, arg |-> cmd.arg])
    /\ spinners' = Append(spinners, Spinner)
    /\ pc' = "rc_run"
    /\ UNCHANGED <<envVars, wlVars, instVars, phase, idx, loopVars, cmd,
                   result, exitStatus, out, histVars>>

\* run_command, lines 53-59: subprocess.run ends
RC_Run ==
    /\ script = "SetupRunpod" /\ pc = "rc_run"
    /\ \E r \in RunResults :
          /\ calls' = Append(calls, RpCall(cmd, r))
          /\ result' = subprocess_run(r, cmd.check)
    /\ pc' = "rc_exit"
    /\ UNCHANGED <<envVars, wlVars, steps, generated, phase, idx, loopVars,
                   cmd, spinners, log, exitStatus, out, histVars>>

\* Spinner.__exit__, line 41, called when the body of "with" is left, by a
\* return or by an exception
Spinner_exit ==
    /\ script = "SetupRunpod" /\ pc = "rc_exit"
    /\ spinners' = [spinners EXCEPT ![Len(spinners)].stop_running = TRUE]
    /\ pc' = "rc_join"
    /\ UNCHANGED <<envVars, wlVars, instVars, phase, idx, loopVars, cmd,
                   result, log, exitStatus, out, histVars>>

\* Spinner.__exit__, lines 42-44: thread.join() and the clearing of the line
Spinner_join ==
    /\ script = "SetupRunpod" /\ pc = "rc_join"
    /\ Joined(spinners[Len(spinners)].thread)
    /\ pc' = "rc_return"
    /\ UNCHANGED <<envVars, wlVars, instVars, phase, idx, loopVars, rpVars,
                   exitStatus, out, histVars>>

\* run_command, lines 61-70, after "with": the success line and the return,
\* or the handler of CalledProcessError.  An exception that __exit__ would
\* suppress leaves result unbound at line 61
RC_Return ==
    /\ script = "SetupRunpod" /\ pc = "rc_return"
    /\ CASE result.kind = "CompletedProcess" ->
              /\ log' = IF result.returncode = 0
                           THEN Append(log, [line |-> "success",
                                             cmd |-> cmd.cmd, arg |-> cmd.arg])
                           ELSE log
              /\ pc' = "rp_returned"
              /\ UNCHANGED <<exitStatus, out>>
         [] result.kind # "CompletedProcess"
              /\ SuppressesException(result.kind) ->
              /\ Uncaught
              /\ UNCHANGED log
         [] result.kind = "CalledProcessError"
              /\ ~SuppressesException(result.kind) ->
              /\ log' = Append(log, [line |-> "error", cmd |-> cmd.cmd,
                                     arg |-> cmd.arg])
              /\ IF ReturnsError(cmd.check)
                    THEN /\ pc' = "rp_returned"
                         /\ UNCHANGED <<exitStatus, out>>
                    ELSE Exit(1, {"command_error"})
         [] OTHER ->
              /\ Uncaught
              /\ UNCHANGED log
    /\ UNCHANGED <<envVars, wlVars, instVars, phase, idx, loopVars, spinners,
                   cmd, result, histVars>>

\* the caller of run_command goes on: accept_conda_tos and
\* test_conda_initialization look at result.returncode, the others do not
RP_Continue(fn) ==
    /\ script = "SetupRunpod" /\ pc = "rp_returned" /\ cmd.fn = fn
    /\ pc' = "rp_step"
    /\ cmd' = None
    /\ CASE fn = "accept_conda_tos" ->
              /\ idx' = idx + 1
              /\ out' = IF result.returncode # 0
                           THEN out \cup {"tos_may_not_be_required"}
                           ELSE out
         [] fn = "test_conda_initialization" /\ cmd.cmd = "conda create test_env" ->
              IF result.returncode = 0
                 THEN /\ idx' = idx + 1
                      /\ UNCHANGED out
                 ELSE /\ idx' = Len(SetupSteps) + 1
                      /\ out' = out \cup {"conda_may_need_manual_intervention"}
         [] fn = "test_conda_initialization" /\ cmd.cmd # "conda create test_env" ->
              /\ idx' = idx + 1
              /\ out' = out \cup {"conda_properly_initialized"}
         [] OTHER ->
              /\ idx' = idx + 1
              /\ UNCHANGED out
    /\ UNCHANGED <<envVars, wlVars, instVars, phase, loopVars, spinners,
                   result, log, exitStatus, histVars>>

install_git == RP_Statement("install_git") \/ RP_Continue("install_git")

install_essential_tools ==
    RP_Statement("install_essential_tools") \/ RP_Continue("install_essential_tools")

install_miniconda ==
    RP_Statement("install_miniconda") \/ RP_Continue("install_miniconda")

accept_conda_tos ==
    RP_Statement("accept_conda_tos") \/ RP_Continue("accept_conda_tos")

setup_environment ==
    RP_Statement("setup_environment") \/ RP_Continue("setup_environment")

test_conda_initialization ==
    RP_Statement("test_conda_initialization")
        \/ RP_Continue("test_conda_initialization")

\* main, lines 221-244: the closing banner; main returns
RP_Completed ==
    /\ script = "SetupRunpod" /\ pc = "rp_step" /\ idx > Len(SetupSteps)
    /\ Exit(0, {"setup_completed"})
    /\ UNCHANGED <<envVars, wlVars, instVars, phase, idx, loopVars, rpVars,
                   histVars>>

\* the characters of the animation, line 20
spinner_chars == 8

\* one step of the thread of spinner k.  Spinner.spin, lines 26-31: the test
\* of the loop, the write of a frame (a write that raises ends the thread),
\* the sleep and the step of i
SpinStep(k) ==
    /\ Alive(spinners[k])
    /\ CASE spinners[k].thread = "test" ->
              spinners' = [spinners EXCEPT ![k] =
                  IF @.stop_running THEN [@ EXCEPT !.thread = "finished", !.i = 0]
                                    ELSE [@ EXCEPT !.thread = "write"]]
         [] spinners[k].thread = "write" ->
              \E ok \in BOOLEAN :
                 spinners' = [spinners EXCEPT ![k] =
                     IF ok THEN [@ EXCEPT !.thread = "sleep"]
                           ELSE [@ EXCEPT !.thread = "finished", !.i = 0]]
         [] OTHER ->
              spinners' = [spinners EXCEPT ![k] =
                  [@ EXCEPT !.thread = "test", !.i = (@ + 1) % spinner_chars]]

spin ==
    /\ script = "SetupRunpod"
    /\ \E k \in 1..Len(spinners) : SpinStep(k)
    /\ UNCHANGED <<envVars, pc, exitStatus, out, wlVars, instVars, phase, idx,
                   loopVars, cmd, result, log, histVars>>

(***************************************************************************)
(* The process: one script, started once, in any environment.              *)
(***************************************************************************)
Init ==
    /\ script \in Scripts
    /\ pc = "start"
    /\ exitStatus = 0
    /\ out = {}
    /\ argv \in (IF script = "A1111Installer" THEN ArgvChoices ELSE {<<>>})
    /\ key \in (IF script = "A1111Models" THEN {"", "civitai-key"} ELSE {""})
    /\ requestsOk \in (IF script \in {"WanLightning", "A1111Models"}
                          THEN BOOLEAN ELSE {TRUE})
    /\ comfyPathOk \in (IF script = "WanLightning" THEN BOOLEAN ELSE {TRUE})
    /\ fs \in (IF script = "WanLightning" /\ comfyPathOk
                  THEN [Files -> FileStates] ELSE {[f \in Files |-> "absent"]})
    /\ phase = 0
    /\ idx = 0
    /\ xet_available = FALSE
    /\ downloaded = FALSE
    /\ success_count = 0
    /\ xet_success_count = 0
    /\ manual_success_count = 0
    /\ attempts = <<>>
    /\ processed = {}
    /\ item = None
    /\ dest_exists = FALSE
    /\ steps = <<>>
    /\ calls = <<>>
    /\ generated \in (IF script = "A1111Installer" THEN {{}, {".git"}}
                                                    ELSE {{}})
    /\ platform \in (IF script = "SetupRunpod" THEN {"linux", "darwin"}
                                                ELSE {"linux"})
    /\ spinners = <<>>
    /\ cmd = None
    /\ result = None
    /\ log = <<>>
    /\ run = 1
    /\ skipped = {}
    /\ failed = {}
    /\ prev_failed = {}

MainStep ==
    \/ WL_Import \/ WL_CheckPath \/ WL_InstallRequests \/ WL_CheckXet
    \/ WL_CreateDirectories \/ WL_NextUrl \/ WL_TryXet \/ WL_Fallback
    \/ WL_Summary \/ WL_RunAgain
    \/ AM_Import \/ AM_Setup
    \/ download_models \/ download_codeformer \/ download_controlnet
    \/ download_esrgan \/ download_remacri \/ download_dfpgan
    \/ download_realesrgan \/ download_loras \/ install_extensions
    \/ AM_NextFunction \/ AM_Summary
    \/ AI_ParseArgs \/ AI_CheckDependencies \/ AI_CreateDirectoryStructure
    \/ AI_SetupCondaEnvironment \/ AI_CloneWebuiRepository
    \/ AI_InstallWebuiDependencies \/ AI_CreateLaunchScript
    \/ AI_CreateCondaActivationScript \/ AI_Completed
    \/ CI_CondaCreate \/ CI_MakeEnvsDir \/ CI_CloneComfyUI \/ CI_InstallTorch
    \/ CI_InstallRequirements \/ CI_MakeCustomNodesDir \/ CI_CloneManager
    \/ CI_Completed
    \/ AL_WriteStartScript \/ AL_WriteLauncher
    \/ RP_Main \/ install_git \/ install_essential_tools \/ install_miniconda
    \/ accept_conda_tos \/ setup_environment \/ test_conda_initialization
    \/ RC_Enter \/ RC_Run \/ Spinner_exit \/ Spinner_join \/ RC_Return
    \/ RP_Completed

\* a step of the main thread, or a step of a spinner thread
Next == MainStep \/ spin

Spec == Init /\ [][Next]_vars

\* every step of a script is taken once it can be: the interpreter runs the
\* main thread until the process ends, and a spinner thread that can run is
\* not left waiting for ever
FairSpec == Spec /\ WF_vars(MainStep) /\ WF_vars(spin)


(***************************************************************************)
(* Properties                                                              *)
(***************************************************************************)
HasMethod(m) == \E k \in 1..Len(attempts) : attempts[k].method = m
Succeeded(m) == \E k \in 1..Len(attempts) : attempts[k].method = m /\ attempts[k].ok

Downloaders == {"WanLightning", "A1111Models"}

\* the turn of the current item is over
TurnOver ==
    \/ script = "WanLightning" /\ pc \in {"wl_loop", "wl_summary", "exited"}
    \/ script = "A1111Models" /\ pc \in {"am_item", "exited"}

\* C1: in ComfyUI_WanLightning.main, for a URL whose destination did not exist
\* when its turn came, a Xet download is attempted exactly when Xet was found
\* installed and get_xet_path maps the URL; the plain-HTTP download is
\* attempted exactly when no Xet download succeeded; Xet comes first.
C1_XetFirstThenHttp ==
    (script = "WanLightning" /\ item # None /\ ~dest_exists)
    => /\ pc = "wl_xet" => attempts = <<>>
       /\ pc # "wl_xet" =>
             (HasMethod("xet") <=>
                 (xet_available /\ get_xet_path(MODEL_URLS[item[2]]) # None))
       /\ pc = "wl_fallback" => ~HasMethod("http")
       /\ TurnOver => (HasMethod("http") <=> ~Succeeded("xet"))
       /\ \A i, j \in 1..Len(attempts) :
             (attempts[i].method = "xet" /\ attempts[j].method = "http") => i < j

\* a failed Xet download followed by the HTTP download of the same URL
C1_Witness ==
    /\ script = "WanLightning" /\ pc = "wl_loop" /\ ~dest_exists
    /\ Len(attempts) = 2
    /\ attempts[1].method = "xet" /\ ~attempts[1].ok
    /\ attempts[2].method = "http"

\* C2: in download_models and download_loras, for a URL whose destination does
\* not exist, the first request carries the Authorization header exactly when
\* CIVITAI_API_KEY is non-empty, and a second request, without the header, is
\* made exactly when the first failed and the key is non-empty.
C2_KeyThenWithout ==
    (script = "A1111Models" /\ item # None /\ item[1] \in {"models", "loras"}
        /\ ~dest_exists)
    => /\ Len(attempts) \in {1, 2}
       /\ (attempts[1].method = "auth_get") <=> (key # "")
       /\ attempts[1].method \in {"auth_get", "unauth_get"}
       /\ pc = "am_retry" => Len(attempts) = 1
       /\ pc # "am_retry" =>
             ((Len(attempts) = 2) <=> (~attempts[1].ok /\ key # ""))
       /\ Len(attempts) = 2 => attempts[2].method = "unauth_get"

\* a LoRA whose download failed with the key and was asked for again without
C2_Witness ==
    /\ script = "A1111Models" /\ pc = "am_item" /\ item # None
    /\ item[1] = "loras" /\ Len(attempts) = 2
    /\ attempts[1].method = "auth_get" /\ ~attempts[1].ok
    /\ attempts[2].method = "unauth_get"

\* the number of items of the tables of the functions main has left
RECURSIVE ItemsBefore(_)
ItemsBefore(p) == IF p <= 1 THEN 0 ELSE Phases[p - 1].n + ItemsBefore(p - 1)

\* C3: there is no retry.  Within one run of a downloader each item gets one
\* turn, a turn makes at most two download attempts, and no method (Xet copy,
\* plain HTTP GET, authenticated GET, unauthenticated GET) is used twice in a
\* turn, so that a second attempt uses another method than the first.
C3_NoRetry ==
    script \in Downloaders
    => /\ Len(attempts) <= 2
       /\ \A i, j \in 1..Len(attempts) :
             i # j => attempts[i].method # attempts[j].method
       /\ (script = "WanLightning" /\ pc = "wl_loop")
             => Cardinality(processed) = idx - 1
       /\ (script = "A1111Models" /\ pc = "am_item")
             => Cardinality(processed) = ItemsBefore(phase) + idx - 1

\* a run that ended right after both methods failed for the last file
C3_Witness ==
    /\ script = "WanLightning" /\ pc = "exited" /\ "summary" \in out
    /\ Len(attempts) = 2 /\ ~attempts[1].ok /\ ~attempts[2].ok

AllItems(s) ==
    IF s = "WanLightning"
       THEN {<<"urls", i>> : i \in 1..Len(MODEL_URLS)}
       ELSE UNION {{<<Phases[p].name, i>> : i \in 1..Phases[p].n} :
                      p \in 1..Len(Phases)}

InLoop ==
    \/ script = "WanLightning" /\ pc \in {"wl_loop", "wl_xet", "wl_fallback"}
    \/ script = "A1111Models" /\ pc \in {"am_item", "am_retry"}

\* the run ended with its closing summary after a turn for every item
Summarised ==
    /\ pc = "exited" /\ exitStatus = 0
    /\ processed = AllItems(script)
    /\ IF script = "WanLightning" THEN "summary" \in out ELSE "completed" \in out

\* C4: a failed download or a failed clone never stops a downloader.  Once a
\* loop has begun, every item gets its turn (it is skipped as existing, or a
\* download or clone is attempted) whatever happened to the items before it,
\* and the run ends with its closing summary.
C4_FailureNeverStops ==
    /\ [](script \in Downloaders =>
            /\ (pc = "exited" /\ processed # {}) => Summarised
            /\ (item # None /\ TurnOver) => (dest_exists \/ attempts # <<>>))
    /\ ((script \in Downloaders /\ InLoop) ~> Summarised)

\* a run that reached the closing messages although the clone of the last
\* extension failed
C4_Witness ==
    /\ script = "A1111Models" /\ pc = "exited" /\ "completed" \in out
    /\ "extension_failed" \in out /\ "extension_error" \in out
    /\ item = <<"extensions", 5>> /\ attempts # <<>> /\ ~attempts[1].ok


\* the messages with which a script reports the failure it stops on
FailureStops ==
    {"traceback", "usage_error", "comfyui_path_not_found", "requests_required",
     "error_creating_script", "missing_dependencies",
     "failed_conda_environment", "failed_clone", "failed_dependencies",
     "failed_launch_script", "failed_activation_script", "command_error",
     "directory_error"}

\* C5: in every script, a failure that makes the script stop (instead of going
\* on with the next item) ends the process with a non-zero exit status.
C5_StopIsNonZero ==
    (pc = "exited" /\ out \cap FailureStops # {}) => exitStatus # 0

InstallOrder ==
    <<"check_dependencies", "create_directory_structure",
      "setup_conda_environment", "clone_webui_repository",
      "install_webui_dependencies", "create_launch_script",
      "create_conda_activation_script">>

\* C6: WebUIInstaller.install runs its steps in the fixed order; a step starts
\* only when every checked step before it returned True, and no step runs
\* after the first one that returned False.
C6_StepsInOrder ==
    script = "A1111Installer"
    => /\ Len(steps) <= Len(InstallOrder)
       /\ \A k \in 1..Len(steps) :
             /\ steps[k].name = InstallOrder[k]
             /\ k < Len(steps) =>
                   steps[k].ret = (IF steps[k].name = "create_directory_structure"
                                      THEN "None" ELSE "True")
       /\ (Len(steps) > 0 /\ steps[Len(steps)].ret \in {"False", "raised"})
             => pc = "exited"

\* the installer stopped by its third step
C6_Witness ==
    /\ script = "A1111Installer" /\ pc = "exited"
    /\ Len(steps) = 3 /\ steps[3].ret = "False"
    /\ steps[1].ret = "True" /\ steps[2].ret = "None"


\* the six steps of install whose result is looked at have all returned True
AllSixTrue ==
    /\ Len(steps) = Len(InstallOrder)
    /\ \A k \in 1..Len(steps) :
          steps[k].name # "create_directory_structure" => steps[k].ret = "True"

\* C7 as stated: the Automatic1111 installer exits with status 0 if and only
\* if all six checked steps returned True, and with status 1 otherwise; the
\* "Installation completed successfully!" banner is printed exactly in the
\* runs that exit with status 0.
C7_ExitStatusOfEveryRun ==
    (script = "A1111Installer" /\ pc = "exited")
    => /\ exitStatus = 0 <=> AllSixTrue
       /\ exitStatus \in {0, 1}
       /\ "installation_completed" \in out <=> exitStatus = 0

\* C7 as amended: in every run in which parse_args returns (the command line
\* is empty or holds only --skip-deps), the installer exits with status 0 if
\* and only if all six checked steps returned True, and with status 1
\* otherwise; the banner is printed exactly in the runs that exit with 0.
C7_ExitStatusOnceParsed ==
    (script = "A1111Installer" /\ pc = "exited" /\ parse_args(argv) = "parsed")
    => /\ exitStatus = 0 <=> AllSixTrue
       /\ exitStatus \in {0, 1}
       /\ "installation_completed" \in out <=> exitStatus = 0

\* a run of the installer in which all steps went through
C7_Witness ==
    /\ script = "A1111Installer" /\ pc = "exited" /\ exitStatus = 0
    /\ AllSixTrue /\ "installation_completed" \in out

CI_Order ==
    <<"conda create", "makedirs ENVS", "git clone ComfyUI", "pip install torch",
      "pip install -r requirements.txt", "makedirs custom_nodes",
      "git clone ComfyUI-Manager">>

\* C8: in ComfyUI_Installer.main the first command or directory creation that
\* fails ends the process with status 1 before any later step starts, and the
\* closing "Completed Successfully" banner is printed only when the conda
\* create, both clones, both pip installs and both directory creations
\* succeeded.
C8_FirstFailureExits ==
    script = "ComfyUIInstaller"
    => /\ Len(calls) <= Len(CI_Order)
       /\ \A k \in 1..Len(calls) :
             /\ calls[k].call = CI_Order[k]
             /\ k < Len(calls) => calls[k].result = "ok"
       /\ (Len(calls) > 0 /\ calls[Len(calls)].result # "ok")
             => (pc = "exited" /\ exitStatus = 1)
       /\ "installation_completed" \in out
             => /\ Len(calls) = Len(CI_Order)
                /\ \A k \in 1..Len(calls) : calls[k].result = "ok"

\* the ComfyUI installer stopped by a failing "pip install torch"
C8_Witness ==
    /\ script = "ComfyUIInstaller" /\ pc = "exited" /\ exitStatus = 1
    /\ Len(calls) = 4 /\ calls[4].result = "nonzero"

\* the place of the first call of a phase in the calls made, 0 when none
FirstCall(names) ==
    IF \E k \in 1..Len(calls) : calls[k].call \in names
       THEN CHOOSE k \in 1..Len(calls) :
               /\ calls[k].call \in names
               /\ \A j \in 1..(k - 1) : calls[j].call \notin names
       ELSE 0

EnvironmentCalls == {"conda create"}
CloneCalls       == {"git clone", "git clone ComfyUI"}
DependencyCalls  == {"pip install torch", "pip install -r requirements.txt",
                     "pip install essential packages"}
LaunchScriptCalls == {"write launch_webui.sh", "write run_comfyui.sh"}
LaunchScripts     == {"launch_webui.sh", "run_comfyui.sh"}

\* C9: each installer goes through environment setup, repository clone,
\* dependency install and generation of the shell launch script in this order,
\* none starting before the one before it has succeeded, and a run that
\* reports success has generated its launch script.
C9_PhasesEndWithLaunchScript ==
    script \in {"A1111Installer", "ComfyUIInstaller"}
    => /\ FirstCall(CloneCalls) > 0 =>
             /\ 0 < FirstCall(EnvironmentCalls)
             /\ FirstCall(EnvironmentCalls) < FirstCall(CloneCalls)
       /\ FirstCall(DependencyCalls) > 0 =>
             /\ 0 < FirstCall(EnvironmentCalls)
             /\ FirstCall(EnvironmentCalls) < FirstCall(DependencyCalls)
             /\ FirstCall(CloneCalls) < FirstCall(DependencyCalls)
       /\ FirstCall(LaunchScriptCalls) > 0 =>
             /\ 0 < FirstCall(DependencyCalls)
             /\ FirstCall(DependencyCalls) < FirstCall(LaunchScriptCalls)
       /\ \A k \in 1..(Len(calls) - 1) : calls[k].result = "ok"
       /\ "installation_completed" \in out => generated \cap LaunchScripts # {}

\* C10: started with --skip-deps, the Automatic1111 installer skips the
\* dependency checks: check_dependencies is not run and a missing conda or
\* git does not stop the installation at that step.
C10_SkipDepsSkipsChecks ==
    (script = "A1111Installer" /\ skip_deps(argv))
    => /\ \A k \in 1..Len(steps) : steps[k].name # "check_dependencies"
       /\ "missing_dependencies" \notin out


(***************************************************************************)
(* setup_runpod.py: run_command and its spinner                            *)
(***************************************************************************)
\* run_command with the "with Spinner(...)" line left out, lines 51-70: what
\* it does for a command that ended as r
run_command_plain(r, check) ==
    CASE r = "ok"                -> "returns 0"
      [] r = "nonzero" /\ ~check -> "returns non-zero"
      [] r = "nonzero" /\ check  -> "sys.exit(1)"
      [] OTHER                   -> "raises"

\* the process ended inside a run_command call
ExitedInRunCommand ==
    script = "SetupRunpod" /\ pc = "exited" /\ cmd # None

\* C11: the spinner thread has no effect on what the script does.  In every
\* interleaving of the spinner's steps with the main thread, each run_command
\* call returns what it returns without a spinner, or ends the process as it
\* does without one, and the external calls made are the calls of the setup
\* statements in their order, each made only when every call before it let
\* the script go on.
C11_SpinnerChangesNothing ==
    script = "SetupRunpod"
    => /\ Len(calls) <= Len(SetupSteps)
       /\ \A k \in 1..Len(calls) :
             /\ calls[k].call = SetupSteps[k].cmd
             /\ calls[k].arg = SetupSteps[k].arg
             /\ k < Len(calls) =>
                   IF SetupSteps[k].kind = "run"
                      THEN run_command_plain(calls[k].result, SetupSteps[k].check)
                              \in {"returns 0", "returns non-zero"}
                      ELSE calls[k].result = "ok"
       /\ Len(calls) = Len(SetupSteps) => calls[Len(calls) - 1].result = "ok"
       /\ pc = "rp_returned" =>
             run_command_plain(calls[Len(calls)].result, cmd.check)
                = (IF result.returncode = 0 THEN "returns 0"
                                            ELSE "returns non-zero")
       /\ ExitedInRunCommand =>
             /\ exitStatus = 1
             /\ run_command_plain(calls[Len(calls)].result, cmd.check)
                   = (IF "command_error" \in out THEN "sys.exit(1)" ELSE "raises")
             /\ ("command_error" \in out) # ("traceback" \in out)

\* a checked command has failed while the spinner was in the middle of its
\* animation
C11_Witness ==
    /\ script = "SetupRunpod" /\ pc = "rc_exit"
    /\ result.kind = "CalledProcessError"
    /\ spinners[Len(spinners)].thread = "sleep"
    /\ spinners[Len(spinners)].i = 5


AliveSpinners == {k \in 1..Len(spinners) : Alive(spinners[k])}

\* the main thread is between Spinner.__enter__ and the end of __exit__
InsideWith == pc \in {"rc_run", "rc_exit", "rc_join"}

\* C14: every Spinner that run_command starts is stopped and joined before
\* run_command returns or calls sys.exit, whether the command failed or not.
\* At most one spinner thread is alive at any time and none outside a
\* run_command call; once __exit__ has set stop_running the spin loop ends,
\* so that the join of __exit__ returns.
C14_SpinnerStoppedAndJoined ==
    /\ [](script = "SetupRunpod" =>
            /\ Cardinality(AliveSpinners) <= 1
            /\ ~InsideWith => AliveSpinners = {}
            /\ \A k \in 1..Len(spinners) :
                  (k < Len(spinners) \/ ~InsideWith)
                     => /\ spinners[k].stop_running
                        /\ spinners[k].thread = "finished"
            /\ pc = "rc_join" => spinners[Len(spinners)].stop_running)
    /\ ((script = "SetupRunpod" /\ pc = "rc_join")
           ~> (pc = "rc_return" /\ AliveSpinners = {}))

\* the process ended by sys.exit(1) in the second run_command call, with both
\* spinners stopped and joined
C14_Witness ==
    /\ script = "SetupRunpod" /\ pc = "exited" /\ exitStatus = 1
    /\ "command_error" \in out
    /\ Len(spinners) = 2
    /\ \A k \in 1..Len(spinners) :
          spinners[k].stop_running /\ spinners[k].thread = "finished"

\* C15: in run_command a command that ends with a non-zero code ends the
\* process with status 1 when check is True, and no later statement runs;
\* when check is False the call returns an object with that non-zero
\* returncode, no success line is printed for it, and the caller goes on.
C15_NonZeroExitsOrReturns ==
    script = "SetupRunpod"
    => \A k \in 1..Len(calls) :
          (SetupSteps[k].kind = "run" /\ calls[k].result = "nonzero")
          => IF SetupSteps[k].check
                THEN /\ k = Len(calls)
                     /\ pc \in {"rc_exit", "rc_join", "rc_return", "exited"}
                     /\ pc = "exited" => (exitStatus = 1 /\ "command_error" \in out)
                     /\ "setup_completed" \notin out
                ELSE /\ ~(k = Len(calls) /\ ExitedInRunCommand)
                     /\ (k = Len(calls) /\ pc = "rp_returned")
                           => result.returncode # 0
                     /\ \A j \in 1..Len(log) :
                           ~(/\ log[j].line = "success"
                             /\ log[j].cmd = SetupSteps[k].cmd
                             /\ log[j].arg = SetupSteps[k].arg)

\* the conda test environment could not be made: run_command returned the
\* failure and main went on to its closing banner
C15_Witness ==
    /\ script = "SetupRunpod" /\ pc = "exited" /\ exitStatus = 0
    /\ "setup_completed" \in out
    /\ "conda_may_need_manual_intervention" \in out
    /\ calls[Len(calls)].result = "nonzero"

\* the place in SetupSteps of the acceptance for the first channel
FirstTos ==
    CHOOSE k \in 1..Len(SetupSteps) :
        /\ SetupSteps[k].fn = "accept_conda_tos"
        /\ \A j \in 1..(k - 1) : SetupSteps[j].fn # "accept_conda_tos"

ChannelsInOrder ==
    <<"https://repo.anaconda.com/pkgs/main", "https://repo.anaconda.com/pkgs/r",
      "defaults", "nvidia", "pytorch", "conda-forge">>

\* C16: accepting the Terms of Service is never fatal.  install_miniconda
\* makes the acceptance call for the six channels in list order; an
\* acceptance that ends with a non-zero code does not end the script, and
\* once the first acceptance has been called the five others and the conda
\* update are called too (unless the shell itself cannot be started).
C16_TosNeverFatal ==
    /\ [](script = "SetupRunpod" =>
            /\ \A j \in 1..Len(ChannelsInOrder) :
                  Len(calls) >= FirstTos + j - 1
                  => /\ calls[FirstTos + j - 1].call = "conda tos accept"
                     /\ calls[FirstTos + j - 1].arg = ChannelsInOrder[j]
                     /\ calls[FirstTos + j - 1].result = "nonzero"
                           => /\ ~(Len(calls) = FirstTos + j - 1 /\ pc = "exited")
                              /\ "tos_may_not_be_required" \in out
                                    \/ Len(calls) = FirstTos + j - 1
            /\ \A k \in 1..Len(calls) :
                  calls[k].call = "conda tos accept"
                  => k \in FirstTos..(FirstTos + Len(ChannelsInOrder) - 1)
            /\ Len(calls) >= FirstTos + Len(ChannelsInOrder)
                  => calls[FirstTos + Len(ChannelsInOrder)].call = "conda update")
    /\ ((script = "SetupRunpod" /\ Len(calls) >= FirstTos)
           ~> \/ Len(calls) >= FirstTos + Len(ChannelsInOrder)
              \/ \E k \in 1..Len(calls) : calls[k].result = "raise")

\* conda update has been called after all six acceptances failed
C16_Witness ==
    /\ script = "SetupRunpod"
    /\ Len(calls) = FirstTos + Len(ChannelsInOrder)
    /\ calls[Len(calls)].call = "conda update"
    /\ \A j \in 1..Len(ChannelsInOrder) :
          calls[FirstTos + j - 1].result = "nonzero"

(***************************************************************************)
(* ComfyUI_WanLightning.py: files that exist, files that failed            *)
(***************************************************************************)
\* C12: a file whose download failed in one run is attempted again in the
\* next run: the next run does not find it present and does not skip it and
\* count it as successful.
C12_FailedIsAttemptedAgain ==
    (script = "WanLightning" /\ run > 1 /\ item # None
        /\ item[2] \in prev_failed)
    => /\ ~dest_exists
       /\ item[2] \notin skipped

\* C13: a destination that exists when its item is reached is left as it is.
\* No Xet copy, no HTTP request and no git clone is made for it, a download
\* begins only on a destination that is absent, and the only file a step of
\* ComfyUI_WanLightning changes is the file of the running turn, which did
\* not exist when the turn began.
C13_ExistingIsLeftUnchanged ==
    /\ [](/\ (script \in Downloaders /\ item # None /\ dest_exists)
                => attempts = <<>>
          /\ (script = "WanLightning" /\ pc \in {"wl_xet", "wl_fallback"}
                 /\ attempts = <<>>) => fs[idx] = "absent"
          /\ (script = "WanLightning" /\ item # None)
                => (dest_exists <=> item[2] \in skipped))
    /\ [][\A f \in Files :
             fs'[f] # fs[f] => /\ item = <<"urls", f>>
                               /\ ~dest_exists
                               /\ f \notin skipped
                               /\ attempts' # attempts]_vars

\* the turn of a file that a failed download had left in part: it is skipped
C13_Witness ==
    /\ script = "WanLightning" /\ pc = "wl_loop" /\ item # None
    /\ dest_exists /\ fs[item[2]] = "partial" /\ attempts = <<>>
    /\ run = 1


\* C17: a Xet copy that times out, ends with a non-zero code or raises gives
\* False and no exception: the process does not end in the turn, the
\* plain-HTTP download is then attempted for the same destination, and a file
\* is reported as "Failed to download" only after its HTTP attempt failed.
C17_XetFailureFallsBack ==
    script = "WanLightning"
    => /\ item # None => "traceback" \notin out
       /\ (pc = "wl_fallback" /\ HasMethod("xet") /\ ~Succeeded("xet"))
             => ~downloaded
       /\ (TurnOver /\ HasMethod("xet") /\ ~Succeeded("xet"))
             => /\ Len(attempts) = 2
                /\ attempts[2].method = "http"
                /\ attempts[2].dest = attempts[1].dest
                /\ attempts[1].dest = item[2]
       /\ (item # None /\ item[2] \in failed)
             => /\ TurnOver
                /\ attempts # <<>>
                /\ attempts[Len(attempts)].method = "http"
                /\ ~attempts[Len(attempts)].ok
       /\ \A f \in failed : fs[f] # "complete" /\ <<"urls", f>> \in processed
       /\ failed # {} <=> "failed_to_download" \in out

\* a file reported as failed after its Xet copy timed out and its HTTP
\* download failed as well
C17_Witness ==
    /\ script = "WanLightning" /\ pc = "wl_loop" /\ item # None
    /\ item[2] \in failed /\ "xet_timed_out" \in out
    /\ Len(attempts) = 2 /\ attempts[1].method = "xet"


(***************************************************************************)
(* The external calls of the scripts and their timeouts                    *)
(***************************************************************************)
\* the timeout argument with xet --version left without one
TimeoutOnCopyOnly(call) == IF call = "xet cp" THEN 3600 ELSE 0

\* the timeout argument of an external call, in seconds; 0 stands for a call
\* made without one.  ComfyUI_WanLightning.py, lines 34-35 and 59
Timeout(call) ==
    CASE call = "xet --version" -> 10
      [] call = "xet cp"        -> 3600
      [] OTHER                  -> 0

\* a place in the source where a subprocess is run or a request is sent
CallSite(s, call, line) ==
    [script |-> s, call |-> call, line |-> line, timeout |-> Timeout(call)]

ExternalCallSites ==
    {CallSite("WanLightning", "xet --version", 34),
     CallSite("WanLightning", "xet cp", 59),
     CallSite("WanLightning", "requests.get", 84),
     CallSite("WanLightning", "pip install requests", 148),
     CallSite("A1111Models", "requests.get", 18),
     CallSite("A1111Models", "git clone", 225),
     CallSite("A1111Installer", "conda --version", 28),
     CallSite("A1111Installer", "git --version", 36),
     CallSite("A1111Installer", "conda create", 72),
     CallSite("A1111Installer", "git clone", 98),
     CallSite("A1111Installer", "pip install torch", 131),
     CallSite("A1111Installer", "pip install -r requirements.txt", 147),
     CallSite("A1111Installer", "pip install essential packages", 171),
     CallSite("ComfyUIInstaller", "run_command", 19),
     CallSite("SetupRunpod", "run_command show_output", 55),
     CallSite("SetupRunpod", "run_command", 58),
     CallSite("SetupRunpod", "urlretrieve", 80)}

WithTimeout == {c \in ExternalCallSites : c.timeout > 0}

\* the sets of results of the calls that TimeoutExpired is one of
TimesOut(call) ==
    CASE call = "xet --version" -> "timeout" \in XetCheckResults
      [] call = "xet cp"        -> "timeout" \in XetResults
      [] call = "requests.get"  -> "timeout" \in HttpResults \cup DownloadResults
      [] call = "git clone"     -> "timeout" \in CloneResults \cup CommandResults
      [] call \in {"run_command", "run_command show_output"}
                                -> "timeout" \in RunResults
      [] OTHER                  -> "timeout" \in CommandResults

\* C18 as stated: across all scripts a timeout is enforced on exactly one
\* external call; every other subprocess and every HTTP request runs with no
\* timeout.
C18_ExactlyOneTimeout ==
    /\ Cardinality(WithTimeout) = 1
    /\ "xet_timed_out" \in out => script = "WanLightning"

\* C18 as amended: across all scripts a timeout is enforced on exactly two
\* external calls, both in ComfyUI_WanLightning: "xet --version" (10 s) and
\* "xet cp" (3600 s); every other subprocess and every HTTP request runs with
\* no timeout, so that only those two calls can end by TimeoutExpired.
C18_ExactlyTwoTimeouts ==
    /\ Cardinality(WithTimeout) = 2
    /\ \A c \in ExternalCallSites :
          /\ c.timeout > 0 <=> (c.script = "WanLightning"
                                   /\ c.call \in {"xet --version", "xet cp"})
          /\ c.timeout > 0 <=> TimesOut(c.call)
    /\ "xet_timed_out" \in out
          => /\ script = "WanLightning"
             /\ xet_available
             /\ processed # {}

\* a Xet copy has just been ended by its timeout
C18_Witness ==
    /\ script = "WanLightning" /\ pc = "wl_fallback"
    /\ "xet_timed_out" \in out /\ ~downloaded
    /\ Len(attempts) = 1 /\ attempts[1].method = "xet"


(***************************************************************************)
(* ComfyUI_WanLightning.py: the counters and the summary                   *)
(***************************************************************************)
\* the counters have been set, lines 185-187
Counting ==
    script = "WanLightning" /\ (pc \in {"wl_loop", "wl_xet", "wl_fallback",
                                        "wl_summary"}
                                   \/ (pc = "exited" /\ "summary" \in out))

\* C19: in the download loop of ComfyUI_WanLightning.main success_count is
\* the number of files skipped as existing plus xet_success_count plus
\* manual_success_count; it never exceeds the number of URLs gone through;
\* after each turn it is the number of URLs gone through that were not
\* reported as failed, so that each URL adds at most one; and the Failed
\* count of the summary is not negative.
C19_CountersAddUp ==
    Counting
    => /\ success_count = Cardinality(skipped) + xet_success_count
                             + manual_success_count
       /\ success_count <= Cardinality(processed)
       /\ TurnOver => success_count = Cardinality(processed) - Cardinality(failed)
       /\ Len(MODEL_URLS) - success_count >= 0
       /\ xet_success_count >= 0 /\ manual_success_count >= 0

\* a summary over one file skipped, one copied by Xet, one downloaded by
\* HTTP and two failed
C19_Witness ==
    /\ script = "WanLightning" /\ pc = "exited" /\ "summary" \in out
    /\ Cardinality(skipped) = 1 /\ xet_success_count = 1
    /\ manual_success_count = 1 /\ success_count = 3
    /\ Cardinality(failed) = 2

\* C20: ComfyUI_WanLightning.main prints "All files downloaded successfully!"
\* if and only if no URL reached the "Failed to download" branch in the run,
\* every URL having been skipped as existing or downloaded by Xet or by HTTP;
\* otherwise it prints the "Some files failed to download" warning.
C20_AllDownloadedIffNoneFailed ==
    (script = "WanLightning" /\ pc = "exited" /\ "summary" \in out)
    => /\ "all_downloaded" \in out <=> failed = {}
       /\ "some_failed" \in out <=> failed # {}
       /\ "all_downloaded" \in out <=> "failed_to_download" \notin out
       /\ processed = AllItems("WanLightning")
       /\ failed = {} => \A f \in Files : f \in skipped \/ fs[f] = "complete"
       /\ Cardinality(skipped) + xet_success_count + manual_success_count
             + Cardinality(failed) = Len(MODEL_URLS)

\* a run in which one file failed and the four others were downloaded
C20_Witness ==
    /\ script = "WanLightning" /\ pc = "exited" /\ "summary" \in out
    /\ "some_failed" \in out /\ "all_downloaded" \notin out
    /\ Cardinality(failed) = 1 /\ skipped = {} /\ success_count = 4


(***************************************************************************)
(* Automatic1111_Models.py: where the API key goes                         *)
(***************************************************************************)
\* what the lines Automatic1111_Models prints put into their text
Interpolates(line) ==
    CASE line \in {"downloading_url"}                     -> {"url"}
      [] line \in {"download_completed", "file_exists"}   -> {"destination"}
      [] line = "error_downloading"                       -> {"url", "exception"}
      [] line \in {"extension_exists", "extension_installed"} -> {"repo_name"}
      [] line = "extension_failed"                        -> {"repo_name", "stderr"}
      [] line = "extension_error"                         -> {"url", "exception"}
      [] OTHER                                            -> {}

\* C21: in Automatic1111_Models the CivitAI API key is put in the
\* Authorization header only of requests to civitai.com (download_models and
\* download_loras), and only when a key is set; every request to another host
\* is sent without it, a clone carries none, and no line the script prints
\* holds the key.
C21_KeyOnlyToCivitai ==
    script = "A1111Models"
    => /\ \A k \in 1..Len(attempts) :
             /\ attempts[k].method = "auth_get"
                   => /\ Phases[phase].host = "civitai.com"
                      /\ Phases[phase].name \in {"models", "loras"}
                      /\ key # ""
             /\ Phases[phase].host = "huggingface.co"
                   => attempts[k].method = "unauth_get"
             /\ Phases[phase].host = "github.com"
                   => attempts[k].method = "git_clone"
       /\ \A line \in out : "CIVITAI_API_KEY" \notin Interpolates(line)

\* with a key set, a Hugging Face download has failed and was reported
C21_Witness ==
    /\ script = "A1111Models" /\ key # "" /\ item # None
    /\ item[1] = "controlnet" /\ Len(attempts) = 1
    /\ attempts[1].method = "unauth_get" /\ ~attempts[1].ok
    /\ "error_downloading" \in out /\ "using_api_key" \in out


\* ---------------------------------------------------------------------------
DestinationOf(i) == get_destination_path(MODEL_URLS[i])

PlacesOfUrls ==
    /\ \A i \in Files : DestinationOf(i).dir \in directories
    /\ \A i \in {1, 2, 5} : DestinationOf(i).dir = "models/diffusion_models"
    /\ DestinationOf(3).dir = "models/vae"
    /\ DestinationOf(4).dir = "models/clip"
    /\ \A i, j \in Files : DestinationOf(i) = DestinationOf(j) => i = j
    /\ \A i \in Files : get_xet_path(MODEL_URLS[i]) # None

\* C22: get_destination_path sends every URL of MODEL_URLS to a directory
\* that create_directories creates: the two .gguf files and the Lightx2v
\* file to models/diffusion_models, the VAE to models/vae, the text encoder
\* to models/clip. No two URLs get the same destination, so every URL has a
\* file of its own, and get_xet_path returns a mapping for every URL.
C22_EveryUrlHasItsOwnCreatedPlace ==
    /\ PlacesOfUrls
    /\ (script = "WanLightning" /\ item # None) => Destination(item[2]) = item[2]
    /\ script = "WanLightning" =>
           \A k \in 1..Len(attempts) :
               Destinations[attempts[k].dest] = attempts[k].dest

\* the text encoder, the fourth URL, has been downloaded with Xet to its own
\* file
C22_Witness ==
    /\ script = "WanLightning"
    /\ item = <<"urls", 4>>
    /\ Len(attempts) = 1
    /\ attempts[1].method = "xet"
    /\ attempts[1].ok
    /\ attempts[1].dest = 4
    /\ fs[4] = "complete"
    /\ DestinationOf(4).filename = <<"umt5_xxl_fp8_e4m3fn_scaled", ".safetensors">>


\* ---------------------------------------------------------------------------
\* the places in calls of the calls of one name
CallsNamed(name) == {k \in 1..Len(calls) : calls[k].call = name}

SecondPipInstalls ==
    CallsNamed("pip install -r requirements.txt")
        \cup CallsNamed("pip install essential packages")

C24_CloneIsIdempotent ==
    [][(script = "A1111Installer" /\ pc = "ai_clone_webui_repository")
        => /\ ".git" \in generated =>
                 /\ calls' = calls
                 /\ generated' = generated
                 /\ steps' = Append(steps, Step("clone_webui_repository", "True"))
                 /\ pc' = "ai_install_webui_dependencies"
           /\ steps'[Len(steps')].ret = "True" => ".git" \in generated'
           /\ ".git" \notin generated => Len(calls') = Len(calls) + 1]_vars

\* the clone step has returned True for a directory that already held .git:
\* no git command is among the calls
C24_Witness ==
    /\ script = "A1111Installer"
    /\ pc = "ai_install_webui_dependencies"
    /\ ".git" \in generated
    /\ steps[Len(steps)] = Step("clone_webui_repository", "True")
    /\ CallsNamed("git clone") = {}


\* ---------------------------------------------------------------------------
HttpMethods == {"http", "auth_get", "unauth_get"}

\* C25: download_file and download_with_requests return True only when the
\* HTTP status was a success and the whole body has been written to the
\* destination; on a connection error, an HTTP error status or a write error
\* they return False and raise nothing.
C25_TrueOnlyForWholeBody ==
    /\ [](script = "A1111Models" =>
            \A k \in 1..Len(attempts) :
                attempts[k].method \in HttpMethods =>
                    (attempts[k].ok <=> attempts[k].result = "ok"))
    /\ [](script = "WanLightning" =>
            \A k \in 1..Len(attempts) :
                (attempts[k].method \in HttpMethods /\ attempts[k].ok)
                    => fs[attempts[k].dest] = "complete")
    /\ [][(/\ script \in {"A1111Models", "WanLightning"}
           /\ attempts' # attempts
           /\ attempts' # <<>>
           /\ attempts'[Len(attempts')].method \in HttpMethods)
          => /\ pc' # "exited"
             /\ "traceback" \notin out'
             /\ script = "WanLightning" =>
                    (attempts'[Len(attempts')].ok
                        <=> fs'[attempts'[Len(attempts')].dest] = "complete")]_vars

\* download_file has returned False for an HTTP error status, and the script
\* goes on
C25_Witness ==
    /\ script = "A1111Models"
    /\ pc # "exited"
    /\ "traceback" \notin out
    /\ \E k \in 1..Len(attempts) :
          /\ attempts[k].method \in HttpMethods
          /\ attempts[k].result = "http_error"
          /\ ~attempts[k].ok


\* ---------------------------------------------------------------------------
\* the functions main calls, in the order of the claim
MainOrder == <<"install_git", "install_essential_tools", "install_miniconda",
               "setup_environment", "test_conda_initialization">>

\* the functions of MainOrder that have been called, in the order of the calls
CalledByMain(st) ==
    LET called == SelectSeq(st, LAMBDA s : \E k \in 1..Len(MainOrder) :
                                               s.name = MainOrder[k])
    IN  [k \in 1..Len(called) |-> called[k].name]

\* C26: setup_runpod.main runs its steps in the order install_git,
\* install_essential_tools, install_miniconda, setup_environment,
\* test_conda_initialization, each starting only after the previous one has
\* returned. On a platform that is not Linux, it exits with status 1 before
\* any package is installed or any file is written.
C26_StepsInOrderOnLinuxOnly ==
    /\ [](script = "SetupRunpod" =>
            /\ CalledByMain(steps) = SubSeq(MainOrder, 1, Len(CalledByMain(steps)))
            /\ platform # "linux" =>
                  /\ steps = <<>> /\ calls = <<>> /\ generated = {}
                  /\ spinners = <<>> /\ log = <<>>
                  /\ pc = "exited" => exitStatus = 1
                  /\ pc \in {"start", "exited"})
    /\ [][(script = "SetupRunpod" /\ steps' # steps)
          => /\ pc = "rp_step" /\ cmd = None
             /\ AliveSpinners = {}
             /\ Len(calls) = idx - 1
             /\ \A k \in 1..(idx - 1) :
                   SetupSteps[k].fn # SetupSteps[idx].fn
                       \/ SetupSteps[idx].fn = "accept_conda_tos"]_vars

\* all five functions have been called, in this order, and the setup is
\* completed
C26_Witness ==
    /\ script = "SetupRunpod"
    /\ platform = "linux"
    /\ CalledByMain(steps) = MainOrder
    /\ pc = "exited" /\ exitStatus = 0
    /\ Len(calls) = Len(SetupSteps)

\* on another platform the script has exited with the message for it
C26_WitnessOtherPlatform ==
    /\ script = "SetupRunpod"
    /\ platform # "linux"
    /\ pc = "exited" /\ exitStatus = 1
    /\ "linux_only" \in out

====
